---- MODULE Spec2Model ----
(***************************************************************************)
(* Model of the Proxmox MCP server: the retrying transport client          *)
(* (src/src/proxmox_client.py), its task poller, the connection liveness   *)
(* cache, the service handlers (src/src/services) and the tool dispatcher  *)
(* (src/src/mcp_server.py), and the role table and token manager of        *)
(* src/src/auth.py.                                                        *)
(*                                                                         *)
(* Ten specifications share the definitions below:                         *)
(*   SpecRetry     one run of ProxmoxClient._execute_with_retry            *)
(*   SpecWait      one run of ProxmoxClient.wait_for_task                  *)
(*   SpecValidate  connect / disconnect / validate_connection with a clock *)
(*   Spec          the MCP server handling tool calls and resource reads   *)
(*   SpecAuth      RBACManager.check_permission (src/src/auth.py)          *)
(*   SpecJwt       JWTManager.create_access_token and verify_token         *)
(*   SpecDocker    the FastAPI application of src/docker/main.py           *)
(*   SpecApp       ProxmoxMCPApplication of src/src/main.py                *)
(*   SpecRace      concurrent validate_connection calls on one client      *)
(*   SpecShared    concurrent accessor and wait_for_task calls             *)
(***************************************************************************)
EXTENDS Integers, Sequences, FiniteSets, TLC

VARIABLES
    \* ---- _execute_with_retry harness (SpecRetry)
    rFrame,          \* the locals of one _execute_with_retry activation
    rInvocations,    \* how many times the operation has been invoked
    rSleeps,         \* the backoff sleeps performed, in order
    opFailsLeft,     \* the operation fails this many more times (AlwaysFail: forever)
    opPlan,          \* the number of failures the operation started with
    opRemote,        \* TRUE when the operation is a lambda over self.api
    remoteCalls,     \* requests handed to the ProxmoxAPI object by the running call
    attemptedUnset,  \* the wrapper has invoked a remote operation while self.api was None
    \* ---- ProxmoxClient fields
    api,             \* self.api: "None" or "ProxmoxAPI"
    session,         \* self.session: "None" or "Session"
    last_connection_check,  \* self._last_connection_check: None or a clock reading
    now,             \* the wall clock, in seconds
    ops,             \* client calls made so far by the liveness harness
    ticks,           \* clock advances made so far by the liveness harness
    connection_cache,  \* self._connection_cache: the cached lookups
    connectCall,     \* the most recent connect(): what it met and what it returned
    disconnects,     \* disconnect() calls made since the most recent connect()
    \* ---- the Proxmox endpoint
    accepted,        \* mutating requests of the running tool call it has accepted
    wrapDepths,      \* the _execute_with_retry nesting depths at which the
                     \* requests of the running handler were issued
    \* ---- the FastAPI application of docker/main.py (SpecDocker)
    proxmox,         \* the global proxmox: "None" or "ProxmoxAPI"
    dPc,             \* "starting" until startup_event has run, then "ready"
    dRequest,        \* the route and path parameter of the last request
    dResponse,       \* the HTTP status and body the last request was answered with
    dServed,         \* requests answered so far
    \* ---- ProxmoxMCPApplication of main.py (SpecApp)
    appPc,           \* "created", "running" (in the loop of start) or "finished"
    running,         \* self.running
    server,          \* self.server: "None" or "Server"
    appExit,         \* how start() ended: "none", "returned" or "raised"
    signalled,       \* the signals handle_signal has received
    loops,           \* turns of the keep-alive loop
    stops,           \* calls of mcp_server.stop() made by the application
    \* ---- coroutines sharing the client (SpecRace, SpecShared)
    coroutines,      \* per coroutine: its call, the await it is parked at, its locals
    \* ---- validate_connection activation
    vPc,             \* "idle", "probing" or "done"
    vNow,            \* the local "now"
    vCalls,          \* the validate_connection calls made, in order
    \* ---- the MCP server and the request it is handling
    enable_rbac,     \* settings.enable_rbac
    pc,              \* "idle", "remote" (in a domain accessor), "waiting", "done"
    call,            \* the request: entry point, name, arguments, caller role
    step,            \* the remote call in progress: "read", "nodes" or "mutate"
    plan,            \* the remote calls and waits the handler still has to make
    task_id,         \* the task handle the mutating call returned
    waitReturned,    \* wait_for_task has returned for task_id
    raised,          \* the exception the handler raised
    response,        \* what the caller got back
    \* ---- wait_for_task activation
    wPc,             \* "idle", "fetch", "sleep", "returned" or "raised"
    wTimeout,        \* the timeout argument, in seconds
    wElapsed,        \* datetime.now() - start_time, in seconds
    wResult,         \* the status object returned
    wError,          \* the exception raised
    wPolls,          \* status fetches that returned a status
    wSleeps,         \* the poll sleeps of wait_for_task asked for, in order
    srcRunningLeft,  \* the task answers "running" this many more times
    srcPlan,         \* the number of "running" answers the task started with
    srcTerminal,     \* the status the task answers once it is no longer running
    \* ---- RBACManager.check_permission harness (SpecAuth)
    aPc,             \* "idle", or "returned" once check_permission has answered
    user_role,       \* the user_role argument
    required_permission,  \* the required_permission argument
    granted,         \* what check_permission returned
    \* ---- JWTManager harness (SpecJwt)
    jPc,             \* "idle", "issued" (a token exists) or "verified"
    utcnow,          \* datetime.utcnow(), in seconds
    data,            \* the claims handed to create_access_token
    expires_delta,   \* the expires_delta handed to create_access_token
    issued_at,       \* datetime.utcnow() when create_access_token ran
    issued,          \* the token create_access_token returned
    token,           \* the token under test, possibly tampered with
    payload          \* what verify_token returned

retryVars == <<rFrame, rInvocations, rSleeps, opFailsLeft, opPlan, opRemote,
               remoteCalls, attemptedUnset>>

clientVars == <<api, session, last_connection_check, now, ops, ticks>>

validateVars == <<vPc, vNow, vCalls>>

serverVars == <<enable_rbac, pc, call, step, plan, task_id, waitReturned, raised,
                response>>

waitVars == <<wPc, wTimeout, wElapsed, wResult, wError, wPolls, wSleeps,
              srcRunningLeft, srcPlan, srcTerminal>>

authVars == <<aPc, user_role, required_permission, granted>>

lifeVars == <<connection_cache, connectCall, disconnects>>

endpointVars == <<accepted, wrapDepths>>

dockerVars == <<proxmox, dPc, dRequest, dResponse, dServed>>

appVars == <<appPc, running, server, appExit, signalled, loops, stops>>

sharedVars == <<coroutines>>

jwtVars ==
    <<jPc, utcnow, data, expires_delta, issued_at, issued, token, payload>>

vars ==
    <<retryVars, clientVars, waitVars, validateVars, serverVars, authVars, jwtVars,
      lifeVars, endpointVars, dockerVars, appVars, sharedVars>>

(***************************************************************************)
(* Bounds of the model.                                                    *)
(***************************************************************************)
MaxRetriesBound == 4     \* largest max_retries the retry harness passes
MaxFail == 4             \* largest number of failures before a success
MaxPolls == 3            \* status fetches followed within one wait_for_task
MaxRunning == 2          \* largest number of "running" answers before a terminal one
MaxOps == 3              \* connect / disconnect / validate_connection calls in one run
MaxTicks == 2            \* clock advances in one run of the liveness harness
MaxNodes == 1            \* largest number of nodes get_nodes answers
MaxRequests == 6         \* requests the FastAPI application answers in one run
MaxLoops == 4            \* turns of the application's keep-alive loop
MaxCallers == 3          \* coroutines calling validate_connection at once
MaxTasks == 2            \* coroutines calling accessors and wait_for_task at once

(***************************************************************************)
(* Program constants.                                                      *)
(***************************************************************************)
DefaultMaxRetries == 3   \* _execute_with_retry(max_retries=3)
DefaultDelay == 1        \* _execute_with_retry(delay=1.0), in seconds

DefaultTimeout == 300    \* wait_for_task(timeout=300)
PollInterval == 2        \* asyncio.sleep(2) in wait_for_task
CheckInterval == 300     \* "Check connection every 5 minutes"
DaySeconds == 86400      \* timedelta.seconds lies in 0 .. DaySeconds - 1
JwtExpireMinutes == 60   \* settings.jwt_expire_minutes

AlwaysFail == 0 - 1      \* marks an operation that never succeeds
AlwaysRunning == 0 - 1   \* marks a task that never leaves "running"

(***************************************************************************)
(* Exceptions.  ProxmoxMCPException(message) carries the default error     *)
(* code; the failures of an operation are numbered so that the last one    *)
(* can be told from the earlier ones.                                      *)
(***************************************************************************)
NoException == [type |-> "None"]

OperationError(n) == [type |-> "Exception", n |-> n]

AttributeError == [type |-> "AttributeError"]

ProxmoxMCPException(message, cause) ==
    [type |-> "ProxmoxMCPException", error_code |-> "PROXMOX_MCP_ERROR",
     message |-> message, cause |-> cause]

(***************************************************************************)
(* ProxmoxClient._execute_with_retry, one step at a time.  A frame holds   *)
(* the activation's locals; pc is "try" (about to invoke the operation),   *)
(* "sleep" (in asyncio.sleep), "returned" or "raised".                     *)
(***************************************************************************)
RECURSIVE Pow2(_)
Pow2(n) == IF n <= 0 THEN 1 ELSE 2 * Pow2(n - 1)

IdleFrame ==
    [pc |-> "idle", max_retries |-> 0, delay |-> 0, attempt |-> 0,
     last_exception |-> NoException, value |-> "none", error |-> NoException]

RetryExhausted(fr) ==
    [fr EXCEPT !.pc = "raised",
               !.error = ProxmoxMCPException("Operation failed after attempts",
                                             fr.last_exception)]

\* entering the for loop: range(max_retries) is empty when max_retries <= 0
RetryEnter(max_retries, delay) ==
    LET fr == [IdleFrame EXCEPT !.max_retries = max_retries, !.delay = delay]
    IN  IF max_retries > 0 THEN [fr EXCEPT !.pc = "try"] ELSE RetryExhausted(fr)

\* a wrapper that compares with max_retries instead of max_retries - 1
IsLastAttempt_OffByOne(attempt, max_retries) == ~(attempt < max_retries)

\* "if attempt < max_retries - 1" fails: this was the last attempt
IsLastAttempt(attempt, max_retries) == ~(attempt < max_retries - 1)

\* a backoff that grows linearly
BackoffDelay_Linear(delay, attempt) == delay * (attempt + 1)

\* "delay * (2 ** attempt)"
BackoffDelay(delay, attempt) == delay * Pow2(attempt)

\* the operation returned value v
RetryOnSuccess(fr, v) == [fr EXCEPT !.pc = "returned", !.value = v]

\* the operation raised e
RetryOnFailure(fr, e) ==
    LET f1 == [fr EXCEPT !.last_exception = e]
    IN  IF IsLastAttempt(fr.attempt, fr.max_retries)
        THEN RetryExhausted(f1)
        ELSE [f1 EXCEPT !.pc = "sleep"]

\* asyncio.sleep returned: next iteration of the for loop
RetryWake(fr) == [fr EXCEPT !.pc = "try", !.attempt = fr.attempt + 1]

RetryDone(fr) == fr.pc \in {"returned", "raised"}

(***************************************************************************)
(* The steps of a running _execute_with_retry activation.  The operation   *)
(* is either a plain callable or a lambda that dereferences self.api; the  *)
(* latter raises AttributeError, before any request is made, when self.api *)
(* is None.                                                                *)
(***************************************************************************)
ApiUsable == (~opRemote) \/ api # "None"

\* the operation in hand is the request of a mutating accessor (create_vm,
\* delete_vm, clone_vm, ...)
Mutating == pc = "remote" /\ step = "mutate"

\* an attempt fails either before the endpoint acts on the request (FALSE)
\* or after it has accepted it, the response being lost or late (TRUE); a
\* request that is not mutating needs no such distinction
FailureKinds == IF Mutating THEN BOOLEAN ELSE {FALSE}

\* how many _execute_with_retry activations enclose the code that is running:
\* the wrapper is entered once per accessor call and never from inside an
\* operation
RetryDepth == IF rFrame.pc = "idle" THEN 0 ELSE 1

RetryAttemptOk ==
    /\ rFrame.pc = "try"
    /\ ApiUsable
    /\ opFailsLeft = 0
    /\ rInvocations' = rInvocations + 1
    /\ remoteCalls' = IF opRemote THEN remoteCalls + 1 ELSE remoteCalls
    /\ rFrame' = RetryOnSuccess(rFrame, "success")
    /\ accepted' = IF Mutating THEN accepted + 1 ELSE accepted
    /\ wrapDepths' = IF opRemote THEN wrapDepths \cup {RetryDepth} ELSE wrapDepths
    /\ UNCHANGED <<rSleeps, opFailsLeft, opPlan, opRemote, attemptedUnset>>
    /\ UNCHANGED <<clientVars, waitVars, validateVars, serverVars>>
    /\ UNCHANGED <<authVars, jwtVars, lifeVars, dockerVars, appVars, sharedVars>>

RetryAttemptFail ==
    /\ rFrame.pc = "try"
    /\ ApiUsable
    /\ opFailsLeft # 0
    /\ rInvocations' = rInvocations + 1
    /\ remoteCalls' = IF opRemote THEN remoteCalls + 1 ELSE remoteCalls
    /\ opFailsLeft' = IF opFailsLeft = AlwaysFail THEN AlwaysFail ELSE opFailsLeft - 1
    /\ rFrame' = RetryOnFailure(rFrame, OperationError(rInvocations + 1))
    /\ \E lost \in FailureKinds :
          accepted' = IF Mutating /\ lost THEN accepted + 1 ELSE accepted
    /\ wrapDepths' = IF opRemote THEN wrapDepths \cup {RetryDepth} ELSE wrapDepths
    /\ UNCHANGED <<rSleeps, opPlan, opRemote, attemptedUnset>>
    /\ UNCHANGED <<clientVars, waitVars, validateVars, serverVars>>
    /\ UNCHANGED <<authVars, jwtVars, lifeVars, dockerVars, appVars, sharedVars>>

RetryAttemptNoApi ==
    /\ rFrame.pc = "try"
    /\ ~ApiUsable
    /\ rInvocations' = rInvocations + 1
    /\ attemptedUnset' = TRUE
    /\ rFrame' = RetryOnFailure(rFrame, AttributeError)
    /\ UNCHANGED <<rSleeps, opFailsLeft, opPlan, opRemote, remoteCalls>>
    /\ UNCHANGED <<clientVars, waitVars, validateVars, serverVars>>
    /\ UNCHANGED <<authVars, jwtVars, lifeVars, endpointVars, dockerVars, appVars, sharedVars>>

\* the backoff sleep; a wait_for_task that is fetching a status ages by it
RetrySleep ==
    /\ rFrame.pc = "sleep"
    /\ rSleeps' = Append(rSleeps, BackoffDelay(rFrame.delay, rFrame.attempt))
    /\ rFrame' = RetryWake(rFrame)
    /\ wElapsed' = IF wPc = "fetch"
                   THEN wElapsed + BackoffDelay(rFrame.delay, rFrame.attempt)
                   ELSE wElapsed
    /\ UNCHANGED <<rInvocations, opFailsLeft, opPlan, opRemote, remoteCalls,
                   attemptedUnset>>
    /\ UNCHANGED <<clientVars, validateVars, serverVars, wPc, wTimeout, wSleeps, wResult,
                   wError, wPolls, srcRunningLeft, srcPlan, srcTerminal>>
    /\ UNCHANGED <<authVars, jwtVars, lifeVars, endpointVars, dockerVars, appVars, sharedVars>>

(***************************************************************************)
(* SpecRetry: _execute_with_retry against an operation that fails a given  *)
(* number of times and then succeeds, or fails forever.                    *)
(***************************************************************************)
RetryIdle ==
    /\ rFrame = IdleFrame
    /\ rInvocations = 0
    /\ rSleeps = <<>>
    /\ opFailsLeft = 0
    /\ opPlan = 0
    /\ opRemote = FALSE
    /\ remoteCalls = 0
    /\ attemptedUnset = FALSE

NoStatus == [status |-> "none", exitstatus |-> "none"]

WaitIdle ==
    /\ wPc = "idle"
    /\ wTimeout = 0
    /\ wElapsed = 0
    /\ wResult = NoStatus
    /\ wError = NoException
    /\ wPolls = 0
    /\ wSleeps = <<>>
    /\ srcRunningLeft = 0
    /\ srcPlan = 0
    /\ srcTerminal = NoStatus

None == 0 - 1            \* Python's None where a clock reading is expected

\* ProxmoxClient.__init__
ClientNew ==
    /\ api = "None"
    /\ session = "None"
    /\ last_connection_check = None
    /\ now = 0
    /\ ops = 0
    /\ ticks = 0

\* the FastAPI application has answered nothing yet
NoRequest == [route |-> "none", node |-> "none"]

NoHttpResponse == [status_code |-> 0, body |-> "none"]

\* no connect() has run yet
NoConnect == [result |-> "none", probe |-> "none", invocations |-> 0]

\* the application object after __init__
AppNew ==
    /\ appPc = "created"
    /\ running = FALSE
    /\ server = "None"
    /\ appExit = "none"
    /\ signalled = {}
    /\ loops = 0
    /\ stops = 0

\* the cache and the lifecycle record of a client nobody has used, and an
\* endpoint that has received nothing
LifeNew ==
    /\ accepted = 0
    /\ wrapDepths = {}
    /\ proxmox = "None"
    /\ dPc = "starting"
    /\ dRequest = NoRequest
    /\ dResponse = NoHttpResponse
    /\ dServed = 0
    /\ AppNew
    /\ coroutines = <<>>
    /\ connection_cache = {}
    /\ connectCall = NoConnect
    /\ disconnects = 0

ValidateIdle ==
    /\ vPc = "idle"
    /\ vNow = 0
    /\ vCalls = <<>>

NoCall == [entry |-> "none", name |-> "none", args |-> {}, role |-> "none",
           configOk |-> TRUE]

NoResponse == [escaped |-> FALSE, text |-> "none", status |-> "none",
               error |-> NoException]

\* no request is being handled
ServerIdle ==
    /\ pc = "idle"
    /\ call = NoCall
    /\ step = "none"
    /\ plan = <<>>
    /\ task_id = "none"
    /\ waitReturned = FALSE
    /\ raised = NoException
    /\ response = NoResponse

AuthIdle ==
    /\ aPc = "idle"
    /\ user_role = "none"
    /\ required_permission = "none"
    /\ granted = FALSE

NoClaims == [sub |-> "none", exp |-> 0]

NoToken ==
    [claims |-> NoClaims, signature |-> [claims |-> NoClaims, key |-> "none"]]

\* verify_token's "return None"
NoPayload == [none |-> TRUE, claims |-> NoClaims, raised |-> FALSE]

JwtIdle ==
    /\ jPc = "idle"
    /\ utcnow = 0
    /\ data = [sub |-> "none"]
    /\ expires_delta = [given |-> FALSE, seconds |-> 0]
    /\ issued_at = 0
    /\ issued = NoToken
    /\ token = NoToken
    /\ payload = NoPayload

\* the settings' defaults
DefaultSettings == enable_rbac = TRUE

InitRetry ==
    RetryIdle /\ WaitIdle /\ ClientNew /\ ValidateIdle /\ LifeNew /\ ServerIdle /\ DefaultSettings
    /\ AuthIdle /\ JwtIdle

RetryCall ==
    /\ rFrame.pc = "idle"
    /\ \E m \in 0..MaxRetriesBound, d \in {DefaultDelay, 2},
          k \in (0..MaxFail) \cup {AlwaysFail} :
          /\ rFrame' = RetryEnter(m, d)
          /\ opFailsLeft' = k
          /\ opPlan' = k
    /\ UNCHANGED <<rInvocations, rSleeps, opRemote, remoteCalls, attemptedUnset>>
    /\ UNCHANGED <<clientVars, waitVars, validateVars, serverVars>>
    /\ UNCHANGED <<authVars, jwtVars, lifeVars, endpointVars, dockerVars, appVars, sharedVars>>

NextRetry == RetryCall \/ RetryAttemptOk \/ RetryAttemptFail \/ RetrySleep

SpecRetry == InitRetry /\ [][NextRetry]_vars

(***************************************************************************)
(* ProxmoxClient.get_task_status and ProxmoxClient.wait_for_task.          *)
(***************************************************************************)
\* timedelta.seconds of a non-negative timedelta of td seconds
Seconds(td) == td % DaySeconds

Running == [status |-> "running", exitstatus |-> "none"]

TerminalStatuses ==
    {[status |-> "stopped", exitstatus |-> "OK"],
     [status |-> "stopped", exitstatus |-> "ERR"]}

\* a loop that leaves only on a task that ended well
IsTerminal_OkOnly(status) == status.exitstatus = "OK"

\* a loop that leaves on whatever the first fetch answers
IsTerminal_Always(status) == TRUE

\* "if status['status'] != 'running'"
IsTerminal(status) == status.status # "running"

\* "if (datetime.now() - start_time).seconds > timeout"
TimedOut(elapsed, timeout) == Seconds(elapsed) > timeout

TaskTimeout == ProxmoxMCPException("Task timed out", NoException)

Timeouts == {1, DefaultTimeout, DaySeconds}

\* how much longer than asked a sleep may take
SleepOvershoot == {0, DefaultTimeout, DaySeconds}

\* the failures a remote request meets before it succeeds
RequestFailures == {0, 1, AlwaysFail}

\* a domain accessor hands its lambda to _execute_with_retry
StartRemote(k) ==
    /\ rFrame' = RetryEnter(DefaultMaxRetries, DefaultDelay)
    /\ rInvocations' = 0
    /\ rSleeps' = <<>>
    /\ opRemote' = TRUE
    /\ opFailsLeft' = k
    /\ opPlan' = k

\* wait_for_task reads start_time and fetches the status for the first time
WaitEnter(timeout) ==
    /\ wPc' = "fetch"
    /\ wTimeout' = timeout
    /\ wElapsed' = 0
    /\ wResult' = NoStatus
    /\ wError' = NoException
    /\ wPolls' = 0
    /\ wSleeps' = <<>>
    /\ \E k \in RequestFailures : StartRemote(k)

\* the status the task answers to the fetch that just succeeded
Answer == IF srcRunningLeft = 0 THEN srcTerminal ELSE Running

Answered ==
    /\ wPc = "fetch"
    /\ rFrame.pc = "returned"
    /\ rFrame' = IdleFrame
    /\ wPolls' = wPolls + 1
    /\ srcRunningLeft' = IF srcRunningLeft > 0 THEN srcRunningLeft - 1
                         ELSE srcRunningLeft

\* get_task_status raised: the exception leaves wait_for_task
WaitFetchFailed ==
    /\ wPc = "fetch"
    /\ rFrame.pc = "raised"
    /\ wPc' = "raised"
    /\ wError' = rFrame.error
    /\ rFrame' = IdleFrame
    /\ UNCHANGED <<rInvocations, rSleeps, opFailsLeft, opPlan, opRemote,
                   remoteCalls, attemptedUnset>>
    /\ UNCHANGED <<clientVars, validateVars, serverVars, wTimeout, wSleeps, wElapsed,
                   wResult, wPolls, srcRunningLeft, srcPlan, srcTerminal>>
    /\ UNCHANGED <<authVars, jwtVars, lifeVars, endpointVars, dockerVars, appVars, sharedVars>>

WaitReturn ==
    /\ Answered
    /\ IsTerminal(Answer)
    /\ wPc' = "returned"
    /\ wResult' = Answer
    /\ UNCHANGED <<rInvocations, rSleeps, opFailsLeft, opPlan, opRemote,
                   remoteCalls, attemptedUnset>>
    /\ UNCHANGED <<clientVars, validateVars, serverVars, wTimeout, wSleeps, wElapsed,
                   wError, srcPlan, srcTerminal>>
    /\ UNCHANGED <<authVars, jwtVars, lifeVars, endpointVars, dockerVars, appVars, sharedVars>>

WaitTimeout ==
    /\ Answered
    /\ ~IsTerminal(Answer)
    /\ TimedOut(wElapsed, wTimeout)
    /\ wPc' = "raised"
    /\ wError' = TaskTimeout
    /\ UNCHANGED <<rInvocations, rSleeps, opFailsLeft, opPlan, opRemote,
                   remoteCalls, attemptedUnset>>
    /\ UNCHANGED <<clientVars, validateVars, serverVars, wTimeout, wSleeps, wElapsed,
                   wResult, srcPlan, srcTerminal>>
    /\ UNCHANGED <<authVars, jwtVars, lifeVars, endpointVars, dockerVars, appVars, sharedVars>>

WaitContinue ==
    /\ Answered
    /\ ~IsTerminal(Answer)
    /\ ~TimedOut(wElapsed, wTimeout)
    /\ wPc' = "sleep"
    /\ UNCHANGED <<rInvocations, rSleeps, opFailsLeft, opPlan, opRemote,
                   remoteCalls, attemptedUnset>>
    /\ UNCHANGED <<clientVars, validateVars, serverVars, wTimeout, wSleeps, wElapsed,
                   wResult, wError, srcPlan, srcTerminal>>
    /\ UNCHANGED <<authVars, jwtVars, lifeVars, endpointVars, dockerVars, appVars, sharedVars>>

\* asyncio.sleep(2) returns after at least two seconds; the next fetch starts
WaitSleep ==
    /\ wPc = "sleep"
    /\ wPolls < MaxPolls
    /\ \E over \in SleepOvershoot : wElapsed' = wElapsed + PollInterval + over
    /\ wSleeps' = Append(wSleeps, PollInterval)
    /\ wPc' = "fetch"
    /\ \E k \in RequestFailures : StartRemote(k)
    /\ UNCHANGED <<remoteCalls, attemptedUnset>>
    /\ UNCHANGED <<clientVars, validateVars, serverVars, wTimeout, wResult,
                   wError, wPolls, srcRunningLeft, srcPlan, srcTerminal>>
    /\ UNCHANGED <<authVars, jwtVars, lifeVars, endpointVars, dockerVars, appVars, sharedVars>>

(***************************************************************************)
(* SpecWait: one wait_for_task against a task that answers "running" a     *)
(* given number of times, or forever, and then a terminal status.          *)
(***************************************************************************)
InitWait ==
    /\ RetryIdle /\ WaitIdle /\ ValidateIdle /\ LifeNew /\ ServerIdle /\ DefaultSettings
    /\ AuthIdle /\ JwtIdle
    /\ api \in {"None", "ProxmoxAPI"}
    /\ session = (IF api = "None" THEN "None" ELSE "Session")
    /\ last_connection_check = (IF api = "None" THEN None ELSE 0)
    /\ now = 0
    /\ ops = 0
    /\ ticks = 0

WaitCall ==
    /\ wPc = "idle"
    /\ \E t \in Timeouts : WaitEnter(t)
    /\ \E n \in (0..MaxRunning) \cup {AlwaysRunning}, term \in TerminalStatuses :
          /\ srcRunningLeft' = n
          /\ srcPlan' = n
          /\ srcTerminal' = term
    /\ UNCHANGED <<remoteCalls, attemptedUnset, clientVars, validateVars,
                   serverVars>>
    /\ UNCHANGED <<authVars, jwtVars, lifeVars, endpointVars, dockerVars, appVars, sharedVars>>

NextWait ==
    \/ WaitCall
    \/ RetryAttemptOk \/ RetryAttemptFail \/ RetryAttemptNoApi \/ RetrySleep
    \/ WaitFetchFailed \/ WaitReturn \/ WaitTimeout \/ WaitContinue \/ WaitSleep

SpecWait == InitWait /\ [][NextWait]_vars

(***************************************************************************)
(* A whole _execute_with_retry run against a request that fails failsLeft  *)
(* times before it succeeds: the final frame, the number of invocations    *)
(* and the seconds slept.                                                  *)
(***************************************************************************)
RECURSIVE RetryRun(_, _, _, _)
RetryRun(fr, failsLeft, inv, slept) ==
    IF RetryDone(fr)
    THEN [frame |-> fr, invocations |-> inv, slept |-> slept]
    ELSE IF fr.pc = "sleep"
    THEN RetryRun(RetryWake(fr), failsLeft, inv,
                  slept + BackoffDelay(fr.delay, fr.attempt))
    ELSE IF failsLeft = 0
    THEN RetryRun(RetryOnSuccess(fr, "success"), failsLeft, inv + 1, slept)
    ELSE RetryRun(RetryOnFailure(fr, OperationError(inv + 1)),
                  IF failsLeft = AlwaysFail THEN AlwaysFail ELSE failsLeft - 1,
                  inv + 1, slept)

\* self._execute_with_retry(lambda: self.api.version.get())
VersionProbe(k) == RetryRun(RetryEnter(DefaultMaxRetries, DefaultDelay), k, 0, 0)

(***************************************************************************)
(* ProxmoxClient.connect, disconnect and validate_connection.              *)
(***************************************************************************)
\* how the version probe ended
ProbeOutcome(run, empty) ==
    IF run.frame.pc = "raised" THEN "exhausted"
    ELSE IF empty THEN "empty"
    ELSE "alive"

\* a connect() that stamps the liveness timestamp whatever the probe said
ConnectStamp_Always(result, last, t) == t

\* connect() line 59-60: "self._last_connection_check = datetime.now()" is
\* reached only on the path that returns True
ConnectStamp(result, last, t) == IF result THEN t ELSE last

\* connect(): ctorOk is FALSE when building the ProxmoxAPI object raises,
\* k is the number of failures the version request meets, empty is TRUE
\* when the version information comes back empty.  Every statement is inside
\* "try ... except Exception: return False".
ConnectOutcome(ctorOk, k, empty) ==
    LET run == VersionProbe(k)
        t == now + run.slept
        alive == ProbeOutcome(run, empty) = "alive"
    IN  IF ~ctorOk
        THEN [api |-> api, session |-> "Session",
              last |-> ConnectStamp(FALSE, last_connection_check, now),
              now |-> now, result |-> FALSE, probe |-> "skipped",
              invocations |-> 0]
        ELSE [api |-> "ProxmoxAPI", session |-> "Session",
              last |-> ConnectStamp(alive, last_connection_check, t),
              now |-> t, result |-> alive, probe |-> ProbeOutcome(run, empty),
              invocations |-> run.invocations]

Connect ==
    /\ vPc # "probing"
    /\ ops < MaxOps
    /\ \E ctorOk \in BOOLEAN, k \in RequestFailures, empty \in BOOLEAN :
          LET o == ConnectOutcome(ctorOk, k, empty)
          IN  /\ api' = o.api
              /\ session' = o.session
              /\ last_connection_check' = o.last
              /\ now' = o.now
              /\ connectCall' =
                     [result |-> IF o.result THEN "True" ELSE "False",
                      probe |-> o.probe, invocations |-> o.invocations]
    /\ ops' = ops + 1
    /\ disconnects' = 0
    /\ UNCHANGED <<ticks, connection_cache, retryVars, waitVars, validateVars,
                   serverVars>>
    /\ UNCHANGED <<authVars, jwtVars, endpointVars, dockerVars, appVars, sharedVars>>

\* the fields disconnect() touches
ClientState ==
    [api |-> api, session |-> session, cache |-> connection_cache]

\* a disconnect() that closes the session and stops there
Disconnected_SessionOnly(c) ==
    [api |-> c.api,
     session |-> IF c.session # "None" THEN "None" ELSE c.session,
     cache |-> c.cache]

\* disconnect(): "if self.session: self.session.close(); self.session = None",
\* "self.api = None", "self._connection_cache.clear()"; the except branch
\* only logs, and requests' Session.close() does not raise
Disconnected(c) ==
    [api |-> "None",
     session |-> IF c.session # "None" THEN "None" ELSE c.session,
     cache |-> {}]

Disconnect ==
    /\ vPc # "probing"
    /\ ops < MaxOps
    /\ LET c == Disconnected(ClientState)
       IN  /\ session' = c.session
           /\ api' = c.api
           /\ connection_cache' = c.cache
    /\ ops' = ops + 1
    /\ disconnects' = disconnects + 1
    /\ UNCHANGED <<last_connection_check, now, ticks, connectCall, retryVars,
                   waitVars, validateVars, serverVars>>
    /\ UNCHANGED <<authVars, jwtVars, endpointVars, dockerVars, appVars, sharedVars>>

\* a cache test that never trusts the cache
CacheFresh_Never(t, last) == FALSE

\* "self._last_connection_check and
\*  (now - self._last_connection_check).seconds < 300"
CacheFresh(t, last) == last # None /\ Seconds(t - last) < CheckInterval

ValidateCall(probes, result, outcome) ==
    [start |-> now,
     age |-> IF last_connection_check = None THEN None
             ELSE now - last_connection_check,
     connected |-> api # "None",
     connect |-> connectCall.result,
     probes |-> probes,
     outcome |-> outcome,
     result |-> result]

\* validate_connection up to its first await: answers at once when self.api
\* is None or the cache is fresh, otherwise issues the version probe
ValidateBegin ==
    /\ vPc # "probing"
    /\ ops < MaxOps
    /\ ops' = ops + 1
    /\ vNow' = now
    /\ IF api = "None"
       THEN /\ vPc' = "done"
            /\ vCalls' = Append(vCalls, ValidateCall(0, "False", "unset"))
       ELSE IF CacheFresh(now, last_connection_check)
       THEN /\ vPc' = "done"
            /\ vCalls' = Append(vCalls, ValidateCall(0, "True", "cached"))
       ELSE /\ vPc' = "probing"
            /\ vCalls' = Append(vCalls, ValidateCall(1, "pending", "pending"))
    /\ UNCHANGED <<api, session, last_connection_check, now, ticks, retryVars,
                   waitVars, serverVars>>
    /\ UNCHANGED <<authVars, jwtVars, lifeVars, endpointVars, dockerVars, appVars, sharedVars>>

\* a validate_connection without its "except Exception" branch
ProbeResult_Reraise(outcome) ==
    IF outcome = "alive" THEN "True"
    ELSE IF outcome = "empty" THEN "False"
    ELSE "raised"

\* what validate_connection returns after the probe: True for version
\* information that is not empty, False otherwise and from the except branch
ProbeResult(outcome) == IF outcome = "alive" THEN "True" ELSE "False"

\* the version probe of validate_connection ends
ValidateProbeDone ==
    /\ vPc = "probing"
    /\ \E k \in RequestFailures, empty \in BOOLEAN :
          LET run == VersionProbe(k)
              outcome == ProbeOutcome(run, empty)
          IN  /\ now' = now + run.slept
              /\ last_connection_check' =
                     IF outcome = "alive" THEN vNow ELSE last_connection_check
              /\ vCalls' = [vCalls EXCEPT ![Len(vCalls)].result =
                                              ProbeResult(outcome),
                                          ![Len(vCalls)].outcome = outcome]
    /\ vPc' = "done"
    /\ UNCHANGED <<api, session, ops, ticks, vNow, retryVars, waitVars,
                   serverVars>>
    /\ UNCHANGED <<authVars, jwtVars, lifeVars, endpointVars, dockerVars, appVars, sharedVars>>

TickSteps == {1, CheckInterval - 1, CheckInterval, DaySeconds}

Tick ==
    /\ ticks < MaxTicks
    /\ ticks' = ticks + 1
    /\ \E d \in TickSteps : now' = now + d
    /\ UNCHANGED <<api, session, last_connection_check, ops, retryVars,
                   waitVars, validateVars, serverVars>>
    /\ UNCHANGED <<authVars, jwtVars, lifeVars, endpointVars, dockerVars, appVars, sharedVars>>

(***************************************************************************)
(* SpecValidate: a client that is connected, disconnected and validated    *)
(* while the clock advances.                                               *)
(***************************************************************************)
InitValidate ==
    RetryIdle /\ WaitIdle /\ ClientNew /\ ValidateIdle /\ LifeNew /\ ServerIdle /\ DefaultSettings
    /\ AuthIdle /\ JwtIdle

NextValidate ==
    Connect \/ Disconnect \/ ValidateBegin \/ ValidateProbeDone \/ Tick

SpecValidate == InitValidate /\ [][NextValidate]_vars

(***************************************************************************)
(* The tool dispatcher (ProxmoxMCPServer._execute_tool), the services it   *)
(* calls and the two entry points handle_call_tool and                     *)
(* handle_read_resource.                                                   *)
(***************************************************************************)
\* create / delete / clone: the mutating call, then wait_for_task
WaitingTools ==
    {"create_vm", "delete_vm", "clone_vm",
     "create_container", "delete_container", "clone_container"}

\* the mutating tools whose service returns right after the mutating call
FireAndForgetTools ==
    {"start_vm", "stop_vm", "migrate_vm", "start_container", "stop_container",
     "create_bridge", "create_backup", "restore_backup"}

MutatingTools == WaitingTools \cup FireAndForgetTools

ReadTools ==
    {"list_vms", "get_vm_details", "list_containers", "get_container_details",
     "get_cluster_status", "get_cluster_resources", "get_ha_resources",
     "list_storages", "get_storage_status", "get_storage_content",
     "get_network_config", "list_nodes", "get_node_status",
     "get_node_services", "list_backups"}

\* the names handle_list_tools registers
RegisteredTools == MutatingTools \cup ReadTools

\* the arguments _execute_tool reads with arguments[...], in evaluation order
Indexed(name) ==
    CASE name \in {"get_vm_details", "start_vm", "stop_vm", "delete_vm",
                   "get_container_details", "start_container",
                   "stop_container", "delete_container"} -> <<"node", "vmid">>
      [] name \in {"create_vm", "create_container", "create_backup"}
            -> <<"node", "vmid", "config">>
      [] name \in {"clone_vm", "clone_container"} -> <<"node", "vmid", "newid">>
      [] name = "migrate_vm" -> <<"node", "vmid", "target_node">>
      [] name \in {"get_storage_status", "get_storage_content"}
            -> <<"node", "storage">>
      [] name \in {"get_network_config", "get_node_status", "get_node_services"}
            -> <<"node">>
      [] name = "create_bridge" -> <<"node", "bridge_name">>
      [] name = "restore_backup" -> <<"node", "vmid", "archive">>
      [] OTHER -> <<>>

\* the arguments read with arguments.get(...) that change what is called
Optional(name) ==
    CASE name \in {"list_vms", "list_containers", "list_storages"} -> {"node"}
      [] name = "list_backups" -> {"node", "storage"}
      [] OTHER -> {}

Range(seq) == {seq[i] : i \in DOMAIN seq}

\* the first argument the dispatcher indexes that the caller did not pass
RECURSIVE FirstMissing(_, _)
FirstMissing(fields, args) ==
    IF fields = <<>> THEN "none"
    ELSE IF Head(fields) \notin args THEN Head(fields)
    ELSE FirstMissing(Tail(fields), args)

KeyError(field) == [type |-> "KeyError", field |-> field]

\* the services' "except Exception as e: raise ProxmoxMCPException(...)"
ServiceError(cause) == ProxmoxMCPException("Failed to", cause)

\* create_vm and create_container reject a config without memory / ostemplate
NeedsConfig(name) == name \in {"create_vm", "create_container"}

\* the remote calls and waits a service makes, in order; "nodes" is a
\* get_nodes whose answer decides how many reads follow
Plan(name, args) ==
    CASE name \in WaitingTools -> <<"mutate", "wait">>
      [] name \in FireAndForgetTools -> <<"mutate">>
      [] name \in {"get_vm_details", "get_container_details"} -> <<"read", "read">>
      [] name \in {"list_vms", "list_containers"}
            -> IF "node" \in args THEN <<"read">> ELSE <<"nodes">>
      [] name = "list_backups"
            -> IF {"node", "storage"} \subseteq args THEN <<"read">>
               ELSE IF "node" \in args THEN <<>>
               ELSE <<"read">>
      [] OTHER -> <<"read">>

\* the 'status' field of the dictionary the service returns
ResultStatus(name) ==
    CASE name \in {"create_vm", "create_container", "create_bridge"} -> "created"
      [] name \in {"start_vm", "start_container", "create_backup",
                   "restore_backup"} -> "started"
      [] name \in {"stop_vm", "stop_container"} -> "stopped"
      [] name \in {"delete_vm", "delete_container"} -> "deleted"
      [] name \in {"clone_vm", "clone_container"} -> "cloned"
      [] name = "migrate_vm" -> "migrating"
      [] OTHER -> "n/a"

\* the resources handle_read_resource serves with one accessor call (the
\* four summary resources, which aggregate several reads, are left out)
SingleReadResources == {"proxmox://cluster/status", "proxmox://cluster/resources"}

\* the resources served by get_vms() / get_containers() over all nodes
PerNodeResources == {"proxmox://vms/list", "proxmox://containers/list"}

ResourcePlan(uri) == IF uri \in PerNodeResources THEN <<"nodes">> ELSE <<"read">>

\* an entry point that lets the exception out, as handle_read_resource does
ToolResponse_Reraise(exc, status) ==
    IF exc = NoException
    THEN [escaped |-> FALSE, text |-> "result", status |-> status,
          error |-> NoException]
    ELSE [escaped |-> TRUE, text |-> "none", status |-> "none", error |-> exc]

\* handle_call_tool: str(result), or "Tool execution failed: " + str(e)
ToolResponse(exc, status) ==
    IF exc = NoException
    THEN [escaped |-> FALSE, text |-> "result", status |-> status,
          error |-> NoException]
    ELSE [escaped |-> FALSE, text |-> "Tool execution failed", status |-> "none",
          error |-> exc]

\* handle_read_resource: str(result), or the exception wrapped and re-raised
ResourceResponse(exc, status) ==
    IF exc = NoException
    THEN [escaped |-> FALSE, text |-> "result", status |-> status,
          error |-> NoException]
    ELSE [escaped |-> TRUE, text |-> "none", status |-> "none",
          error |-> ProxmoxMCPException("Failed to read resource", exc)]

\* the request ends: the entry point turns the outcome into the response
Finish(c, exc) ==
    /\ pc' = "done"
    /\ step' = "none"
    /\ plan' = <<>>
    /\ raised' = exc
    /\ response' = IF c.entry = "tool"
                   THEN ToolResponse(exc, ResultStatus(c.name))
                   ELSE ResourceResponse(exc, "n/a")

\* what _execute_tool / handle_read_resource raise before any service call
DispatchError(c) ==
    IF c.entry = "resource"
    THEN IF c.name \in SingleReadResources \cup PerNodeResources
         THEN NoException
         ELSE ProxmoxMCPException("Unknown resource URI", NoException)
    ELSE IF c.name \notin RegisteredTools
    THEN ProxmoxMCPException("Unknown tool", NoException)
    ELSE IF FirstMissing(Indexed(c.name), c.args) # "none"
    THEN KeyError(FirstMissing(Indexed(c.name), c.args))
    ELSE IF NeedsConfig(c.name) /\ ~c.configOk
    THEN ServiceError(ProxmoxMCPException("configuration is required",
                                          NoException))
    ELSE NoException

CallPlan(c) ==
    IF c.entry = "resource" THEN ResourcePlan(c.name) ELSE Plan(c.name, c.args)

Roles == {"admin", "operator", "viewer"}

ArgumentsOf(name) == Range(Indexed(name)) \cup Optional(name)

\* the tool calls and resource reads a client can send; a request is told
\* apart only by the arguments the dispatcher looks at
Requests ==
    {[entry |-> "tool", name |-> na[1], args |-> na[2], role |-> r,
      configOk |-> ok] :
        na \in UNION {{<<n, a>> : a \in SUBSET ArgumentsOf(n)} :
                         n \in RegisteredTools \cup {"no_such_tool"}},
        r \in Roles, ok \in BOOLEAN}
    \cup
    {[entry |-> "resource", name |-> u, args |-> {}, role |-> r,
      configOk |-> TRUE] :
        u \in SingleReadResources \cup PerNodeResources
              \cup {"proxmox://no/such"},
        r \in Roles}

\* a request arrives; it fails in the dispatcher, is answered without a
\* remote call, or the service starts its first remote call
ReceiveCall ==
    /\ pc = "idle"
    /\ \E c \in Requests :
          /\ NeedsConfig(c.name) \/ c.configOk
          /\ call' = c
          /\ IF DispatchError(c) # NoException
             THEN /\ Finish(c, DispatchError(c))
                  /\ UNCHANGED <<rFrame, rInvocations, rSleeps, opFailsLeft,
                                 opPlan, opRemote>>
             ELSE IF CallPlan(c) = <<>>
             THEN /\ Finish(c, NoException)
                  /\ UNCHANGED <<rFrame, rInvocations, rSleeps, opFailsLeft,
                                 opPlan, opRemote>>
             ELSE /\ pc' = "remote"
                  /\ step' = Head(CallPlan(c))
                  /\ plan' = Tail(CallPlan(c))
                  /\ raised' = NoException
                  /\ response' = NoResponse
                  /\ \E k \in RequestFailures : StartRemote(k)
    /\ remoteCalls' = 0
    /\ attemptedUnset' = FALSE
    /\ accepted' = 0
    /\ wrapDepths' = {}
    /\ task_id' = "none"
    /\ waitReturned' = FALSE
    /\ wPc' = "idle" /\ wTimeout' = 0 /\ wElapsed' = 0 /\ wResult' = NoStatus
    /\ wError' = NoException /\ wPolls' = 0 /\ wSleeps' = <<>>
    /\ srcRunningLeft' = 0 /\ srcPlan' = 0 /\ srcTerminal' = NoStatus
    /\ UNCHANGED <<clientVars, validateVars, enable_rbac>>
    /\ UNCHANGED <<authVars, jwtVars, lifeVars, dockerVars, appVars, sharedVars>>

\* how the task behind a new task handle will answer the status fetches
TaskStarts ==
    \E n \in (0..MaxRunning) \cup {AlwaysRunning}, term \in TerminalStatuses :
        /\ srcRunningLeft' = n
        /\ srcPlan' = n
        /\ srcTerminal' = term

\* the accessor returned: the service goes on to its next call, to
\* wait_for_task, or returns its result
RemoteReturned ==
    /\ pc = "remote"
    /\ rFrame.pc = "returned"
    /\ task_id' = IF step = "mutate" THEN "UPID" ELSE task_id
    /\ \E n \in 0..MaxNodes :
          LET rest == IF step = "nodes" THEN [i \in 1..n |-> "read"] ELSE plan
          IN  IF rest = <<>>
              THEN /\ Finish(call, NoException)
                   /\ rFrame' = IdleFrame
                   /\ UNCHANGED <<rInvocations, rSleeps, opFailsLeft, opPlan,
                                  opRemote, waitVars>>
              ELSE IF Head(rest) = "wait"
              THEN /\ pc' = "waiting"
                   /\ step' = "none"
                   /\ plan' = Tail(rest)
                   /\ WaitEnter(DefaultTimeout)
                   /\ TaskStarts
                   /\ UNCHANGED <<raised, response>>
              ELSE /\ pc' = "remote"
                   /\ step' = Head(rest)
                   /\ plan' = Tail(rest)
                   /\ \E k \in RequestFailures : StartRemote(k)
                   /\ UNCHANGED <<raised, response, waitVars>>
    /\ UNCHANGED <<remoteCalls, attemptedUnset, call, waitReturned, enable_rbac,
                   clientVars, validateVars>>
    /\ UNCHANGED <<authVars, jwtVars, lifeVars, endpointVars, dockerVars, appVars, sharedVars>>

\* the accessor raised: the service wraps the exception and raises
RemoteRaised ==
    /\ pc = "remote"
    /\ rFrame.pc = "raised"
    /\ Finish(call, ServiceError(rFrame.error))
    /\ rFrame' = IdleFrame
    /\ UNCHANGED <<rInvocations, rSleeps, opFailsLeft, opPlan, opRemote,
                   remoteCalls, attemptedUnset, call, task_id, waitReturned,
                   enable_rbac, clientVars, validateVars, waitVars>>
    /\ UNCHANGED <<authVars, jwtVars, lifeVars, endpointVars, dockerVars, appVars, sharedVars>>

\* a handler that reports success whatever exit status the task ended with
TaskWaited_IgnoreExit ==
    /\ pc = "waiting"
    /\ wPc = "returned"
    /\ waitReturned' = TRUE
    /\ wPc' = "idle"
    /\ Finish(call, NoException)
    /\ UNCHANGED <<retryVars, call, task_id, enable_rbac, clientVars,
                   validateVars, wTimeout, wSleeps, wElapsed, wResult, wError, wPolls,
                   srcRunningLeft, srcPlan, srcTerminal>>
    /\ UNCHANGED <<authVars, jwtVars, lifeVars, endpointVars, dockerVars, appVars, sharedVars>>

\* wait_for_task returned: "if task_result.get('exitstatus') != 'OK': raise"
TaskWaited ==
    /\ pc = "waiting"
    /\ wPc = "returned"
    /\ waitReturned' = TRUE
    /\ wPc' = "idle"
    /\ IF wResult.exitstatus # "OK"
       THEN Finish(call, ServiceError(ProxmoxMCPException("failed",
                                                          NoException)))
       ELSE Finish(call, NoException)
    /\ UNCHANGED <<retryVars, call, task_id, enable_rbac, clientVars,
                   validateVars, wTimeout, wSleeps, wElapsed, wResult, wError, wPolls,
                   srcRunningLeft, srcPlan, srcTerminal>>
    /\ UNCHANGED <<authVars, jwtVars, lifeVars, endpointVars, dockerVars, appVars, sharedVars>>

\* a handler that swallows what wait_for_task raised and reports success
TaskWaitRaised_Swallow ==
    /\ pc = "waiting"
    /\ wPc = "raised"
    /\ wPc' = "idle"
    /\ Finish(call, NoException)
    /\ UNCHANGED <<retryVars, call, task_id, waitReturned, enable_rbac,
                   clientVars, validateVars, wTimeout, wSleeps, wElapsed, wResult,
                   wError, wPolls, srcRunningLeft, srcPlan, srcTerminal>>
    /\ UNCHANGED <<authVars, jwtVars, lifeVars, endpointVars, dockerVars, appVars, sharedVars>>

\* wait_for_task raised (timeout, or the status fetch failed)
TaskWaitRaised ==
    /\ pc = "waiting"
    /\ wPc = "raised"
    /\ wPc' = "idle"
    /\ Finish(call, ServiceError(wError))
    /\ UNCHANGED <<retryVars, call, task_id, waitReturned, enable_rbac,
                   clientVars, validateVars, wTimeout, wSleeps, wElapsed, wResult,
                   wError, wPolls, srcRunningLeft, srcPlan, srcTerminal>>
    /\ UNCHANGED <<authVars, jwtVars, lifeVars, endpointVars, dockerVars, appVars, sharedVars>>

\* the entry point hands its response to the transport; the handler's frames
\* are gone and the server is ready for the next request
Respond ==
    /\ pc = "done"
    /\ pc' = "idle" /\ call' = NoCall /\ step' = "none" /\ plan' = <<>>
    /\ task_id' = "none" /\ waitReturned' = FALSE
    /\ raised' = NoException /\ response' = NoResponse
    /\ rFrame' = IdleFrame /\ rInvocations' = 0 /\ rSleeps' = <<>>
    /\ opFailsLeft' = 0 /\ opPlan' = 0 /\ opRemote' = FALSE
    /\ remoteCalls' = 0 /\ attemptedUnset' = FALSE /\ accepted' = 0
    /\ wrapDepths' = {}
    /\ wPc' = "idle" /\ wTimeout' = 0 /\ wElapsed' = 0 /\ wResult' = NoStatus
    /\ wError' = NoException /\ wPolls' = 0 /\ wSleeps' = <<>>
    /\ srcRunningLeft' = 0 /\ srcPlan' = 0 /\ srcTerminal' = NoStatus
    /\ UNCHANGED <<clientVars, validateVars, enable_rbac>>
    /\ UNCHANGED <<authVars, jwtVars, lifeVars, dockerVars, appVars, sharedVars>>

\* ProxmoxMCPServer.start(), called before requests are served:
\* "if not await auth_manager.connect(): raise".  Spec does not observe the
\* clock, so the seconds connect() sleeps between the attempts of its
\* version probe are not added to it.
ServerStart ==
    /\ pc = "idle"
    /\ \E o \in {ConnectOutcome(ctorOk, k, empty) :
                     ctorOk \in BOOLEAN, k \in RequestFailures,
                     empty \in BOOLEAN} :
          /\ api' = o.api
          /\ session' = o.session
          /\ last_connection_check' = IF o.result THEN now
                                      ELSE last_connection_check
    /\ UNCHANGED <<now, ops, ticks, retryVars, waitVars, validateVars,
                   serverVars>>
    /\ UNCHANGED <<authVars, jwtVars, lifeVars, endpointVars, dockerVars, appVars, sharedVars>>

\* ProxmoxMCPServer.stop(), at any moment (the signal handler of main.py):
\* "await auth_manager.disconnect()"
ServerStop ==
    /\ LET c == Disconnected(ClientState)
       IN  /\ session' = c.session
           /\ api' = c.api
           /\ connection_cache' = c.cache
    /\ UNCHANGED <<last_connection_check, now, ops, ticks, retryVars, waitVars,
                   validateVars, serverVars, connectCall, disconnects>>
    /\ UNCHANGED <<authVars, jwtVars, endpointVars, dockerVars, appVars, sharedVars>>

(***************************************************************************)
(* Spec: the server after construction.  It handles one request at a time  *)
(* while the application connects and disconnects the shared client;       *)
(* mcp_server.main() serves requests without ever connecting.              *)
(***************************************************************************)
Init ==
    /\ RetryIdle /\ WaitIdle /\ ClientNew /\ ValidateIdle /\ LifeNew /\ ServerIdle
    /\ DefaultSettings
    /\ AuthIdle /\ JwtIdle

Next ==
    \/ ServerStart \/ ServerStop
    \/ ReceiveCall \/ RemoteReturned \/ RemoteRaised \/ TaskWaited \/ TaskWaitRaised
    \/ Respond
    \/ RetryAttemptOk \/ RetryAttemptFail \/ RetryAttemptNoApi \/ RetrySleep
    \/ WaitFetchFailed \/ WaitReturn \/ WaitTimeout \/ WaitContinue \/ WaitSleep

Spec == Init /\ [][Next]_vars

(***************************************************************************)
(* RBACManager: the static role table and check_permission.                *)
(***************************************************************************)
AdminPermissions ==
    {"vm:create", "vm:delete", "vm:start", "vm:stop", "vm:clone", "vm:migrate",
     "vm:snapshot", "vm:config", "vm:monitor",
     "lxc:create", "lxc:delete", "lxc:start", "lxc:stop", "lxc:clone",
     "lxc:snapshot", "lxc:config", "lxc:monitor", "lxc:exec",
     "node:monitor", "node:configure", "node:reboot", "node:shutdown",
     "node:services", "node:tasks",
     "cluster:monitor", "cluster:configure", "cluster:ha", "cluster:backup",
     "storage:create", "storage:delete", "storage:configure", "storage:monitor",
     "storage:upload", "storage:download",
     "network:create", "network:delete", "network:configure", "network:monitor",
     "network:sdn", "network:firewall",
     "backup:create", "backup:restore", "backup:delete", "backup:schedule",
     "backup:monitor",
     "system:configure", "system:monitor", "system:logs"}

OperatorPermissions ==
    {"vm:start", "vm:stop", "vm:clone", "vm:snapshot", "vm:monitor",
     "lxc:start", "lxc:stop", "lxc:clone", "lxc:snapshot", "lxc:monitor",
     "node:monitor", "node:tasks",
     "cluster:monitor",
     "storage:monitor", "storage:upload",
     "network:monitor",
     "backup:create", "backup:monitor",
     "system:monitor"}

\* a viewer set that holds a permission the operator set lacks
ViewerPermissions_Extra ==
    {"vm:monitor", "lxc:monitor", "node:monitor", "cluster:monitor",
     "storage:monitor", "network:monitor", "backup:monitor", "system:monitor",
     "system:logs"}

ViewerPermissions ==
    {"vm:monitor", "lxc:monitor", "node:monitor", "cluster:monitor",
     "storage:monitor", "network:monitor", "backup:monitor", "system:monitor"}

\* RBACManager.ROLES
ROLES ==
    [r \in Roles |->
        CASE r = "admin" -> AdminPermissions
          [] r = "operator" -> OperatorPermissions
          [] r = "viewer" -> ViewerPermissions]

\* "cls.ROLES.get(user_role, [])"
RolesGet(user) == IF user \in DOMAIN ROLES THEN ROLES[user] ELSE {}

\* a check that lets every unknown role through
check_permission_OpenByDefault(rbac, user, permission) ==
    IF ~rbac THEN TRUE
    ELSE IF user \notin DOMAIN ROLES THEN TRUE
    ELSE permission \in RolesGet(user)

\* check_permission with settings.enable_rbac = rbac
check_permission(rbac, user, permission) ==
    IF ~rbac THEN TRUE ELSE permission \in RolesGet(user)

\* role strings: the three of the table, and strings that are not in it
RoleStrings == Roles \cup {"Admin", "guest", ""}

\* permission strings: those of the table, and strings that are in no set
PermissionStrings == AdminPermissions \cup {"vm:destroy", "VM:START", "*", ""}

CheckPermission ==
    /\ aPc = "called"
    /\ aPc' = "returned"
    /\ granted' = check_permission(enable_rbac, user_role, required_permission)
    /\ UNCHANGED <<user_role, required_permission>>
    /\ UNCHANGED <<retryVars, clientVars, waitVars, validateVars, serverVars,
                   jwtVars, lifeVars, endpointVars, dockerVars, appVars, sharedVars>>

(***************************************************************************)
(* SpecAuth: check_permission called once with any role string, any        *)
(* permission string and either value of settings.enable_rbac.             *)
(***************************************************************************)
InitAuth ==
    /\ RetryIdle /\ WaitIdle /\ ClientNew /\ ValidateIdle /\ LifeNew /\ ServerIdle /\ JwtIdle
    /\ enable_rbac \in BOOLEAN
    /\ aPc = "called"
    /\ user_role \in RoleStrings
    /\ required_permission \in PermissionStrings
    /\ granted = FALSE

NextAuth == CheckPermission

SpecAuth == InitAuth /\ [][NextAuth]_vars

(***************************************************************************)
(* JWTManager.  A token is its claims and a signature; the signature is    *)
(* an ideal MAC, equal only to one computed over the same claims with the  *)
(* same key.  Times are whole seconds, as jose writes "exp".  jose's       *)
(* decode raises JWTError for a signature that does not match and          *)
(* ExpiredSignatureError, a JWTError, when exp lies before the clock.      *)
(***************************************************************************)
SecretKey == "settings.secret_key"

Sign(claims, key) == [claims |-> claims, key |-> key]

\* jwt.encode(to_encode, key, algorithm)
Encode(claims, key) == [claims |-> claims, signature |-> Sign(claims, key)]

\* expires_delta: None, or a timedelta of so many seconds
NoDelta == [given |-> FALSE, seconds |-> 0]

Delta(seconds) == [given |-> TRUE, seconds |-> seconds]

\* "if expires_delta:" is false for None and for timedelta(0)
Truthy(delta) == delta.given /\ delta.seconds # 0

\* the "exp" claim create_access_token computes at time t
Expire(delta, t) ==
    IF Truthy(delta) THEN t + delta.seconds ELSE t + JwtExpireMinutes * 60

create_access_token(claims, delta, t) ==
    Encode([sub |-> claims.sub, exp |-> Expire(delta, t)], SecretKey)

\* a decoder that never looks at "exp"
Expired_Never(exp, t) == FALSE

\* jose rejects the token when exp < now
Expired(exp, t) == exp < t

\* jwt.decode(token, key, algorithms): the claims, or the error raised
Decode(tok, key, t) ==
    IF tok.signature # Sign(tok.claims, key)
    THEN [error |-> "JWTError", claims |-> NoClaims]
    ELSE IF Expired(tok.claims.exp, t)
    THEN [error |-> "ExpiredSignatureError", claims |-> NoClaims]
    ELSE [error |-> "none", claims |-> tok.claims]

\* verify_token at time t: "except JWTError" catches both errors
verify_token(tok, t) ==
    LET d == Decode(tok, SecretKey, t)
    IN  IF d.error \in {"JWTError", "ExpiredSignatureError"}
        THEN NoPayload
        ELSE [none |-> FALSE, claims |-> d.claims, raised |-> d.error # "none"]

Subjects == {"alice", "bob"}

ExpiresDeltas == {NoDelta, Delta(0), Delta(0 - 60), Delta(60)}

\* what someone without the secret can do to a token
Tampered(tok) ==
    {[tok EXCEPT !.claims.sub = "mallory"],
     [tok EXCEPT !.claims.exp = tok.claims.exp + DaySeconds],
     Encode(tok.claims, "another key")}

IssueToken ==
    /\ jPc = "idle"
    /\ \E sub \in Subjects, delta \in ExpiresDeltas :
          /\ data' = [sub |-> sub]
          /\ expires_delta' = delta
          /\ issued' = create_access_token(data', delta, utcnow)
          /\ token' = issued'
    /\ jPc' = "issued"
    /\ issued_at' = utcnow
    /\ UNCHANGED <<utcnow, payload>>
    /\ UNCHANGED <<retryVars, clientVars, waitVars, validateVars, serverVars,
                   authVars, lifeVars, endpointVars, dockerVars, appVars, sharedVars>>

TamperToken ==
    /\ jPc = "issued"
    /\ token = issued
    /\ token' \in Tampered(token)
    /\ UNCHANGED <<jPc, utcnow, data, expires_delta, issued_at, issued, payload>>
    /\ UNCHANGED <<retryVars, clientVars, waitVars, validateVars, serverVars,
                   authVars, lifeVars, endpointVars, dockerVars, appVars, sharedVars>>

\* time passes between issuing and verifying
JwtTick ==
    /\ jPc = "issued"
    /\ ticks < MaxTicks
    /\ ticks' = ticks + 1
    /\ \E d \in {1, 59, JwtExpireMinutes * 60} : utcnow' = utcnow + d
    /\ UNCHANGED <<jPc, data, expires_delta, issued_at, issued, token, payload>>
    /\ UNCHANGED <<api, session, last_connection_check, now, ops>>
    /\ UNCHANGED <<retryVars, waitVars, validateVars, serverVars, authVars,
                   lifeVars, endpointVars, dockerVars, appVars, sharedVars>>

VerifyToken ==
    /\ jPc = "issued"
    /\ payload' = verify_token(token, utcnow)
    /\ jPc' = "verified"
    /\ UNCHANGED <<utcnow, data, expires_delta, issued_at, issued, token>>
    /\ UNCHANGED <<retryVars, clientVars, waitVars, validateVars, serverVars,
                   authVars, lifeVars, endpointVars, dockerVars, appVars, sharedVars>>

(***************************************************************************)
(* SpecJwt: a token is issued, possibly tampered with, and verified after  *)
(* some time.                                                              *)
(***************************************************************************)
InitJwt ==
    /\ RetryIdle /\ WaitIdle /\ ClientNew /\ ValidateIdle /\ LifeNew /\ ServerIdle
    /\ DefaultSettings
    /\ AuthIdle /\ JwtIdle

NextJwt == IssueToken \/ TamperToken \/ JwtTick \/ VerifyToken

SpecJwt == InitJwt /\ [][NextJwt]_vars

(***************************************************************************)
(* The FastAPI application of src/docker/main.py.  It keeps its own        *)
(* ProxmoxAPI object in the global "proxmox" and does not use              *)
(* ProxmoxClient.                                                          *)
(***************************************************************************)
DockerNodes == {"pve1", "pve2"}

OtherVars ==
    <<retryVars, clientVars, waitVars, validateVars, serverVars, authVars,
      jwtVars, lifeVars, appVars, sharedVars>>

HttpOk == [status_code |-> 200, body |-> "result"]

\* "raise HTTPException(status_code=500, detail=...)"
HttpError(detail) == [status_code |-> 500, body |-> detail]

\* startup_event: initialize_proxmox() builds the ProxmoxAPI object, or logs
\* a warning and leaves the global at None
DockerStartup ==
    /\ dPc = "starting"
    /\ \E ok \in BOOLEAN : proxmox' = IF ok THEN "ProxmoxAPI" ELSE "None"
    /\ dPc' = "ready"
    /\ UNCHANGED <<dRequest, dResponse, dServed, endpointVars, OtherVars>>

\* a handler that issues no request to Proxmox answers
DockerAnswer(route, node, answer) ==
    /\ dServed < MaxRequests
    /\ dServed' = dServed + 1
    /\ dRequest' = [route |-> route, node |-> node]
    /\ dResponse' = answer
    /\ wrapDepths' = {}
    /\ UNCHANGED <<proxmox, dPc, accepted, OtherVars>>

\* a handler evaluates "proxmox....get()" inside its own try / except: one
\* request, issued where the handler stands, answered or failing
DockerRemote(route, node) ==
    /\ dServed < MaxRequests
    /\ dServed' = dServed + 1
    /\ dRequest' = [route |-> route, node |-> node]
    /\ \E ok \in BOOLEAN :
          dResponse' = IF ok THEN HttpOk ELSE HttpError("str(e)")
    /\ wrapDepths' = {RetryDepth}
    /\ UNCHANGED <<proxmox, dPc, accepted, OtherVars>>

\* GET / and GET /health
DockerRoot ==
    /\ dPc = "ready"
    /\ \E route \in {"/", "/health"} : DockerAnswer(route, "none", HttpOk)

\* GET /proxmox/nodes
DockerGetNodes ==
    /\ dPc = "ready"
    /\ IF proxmox = "None"
       THEN DockerAnswer("/proxmox/nodes", "none",
                         HttpError("Proxmox connection not available"))
       ELSE DockerRemote("/proxmox/nodes", "none")

\* GET /proxmox/node/{node}/vms
DockerGetVms ==
    /\ dPc = "ready"
    /\ \E node \in DockerNodes :
          IF proxmox = "None"
          THEN DockerAnswer("/proxmox/node/{node}/vms", node,
                            HttpError("Proxmox connection not available"))
          ELSE DockerRemote("/proxmox/node/{node}/vms", node)

\* GET /ollama/models and POST /ollama/generate: a request to Ollama, none
\* to Proxmox
DockerOllama ==
    /\ dPc = "ready"
    /\ \E route \in {"/ollama/models", "/ollama/generate"}, ok \in BOOLEAN :
          DockerAnswer(route, "none",
                       IF ok THEN HttpOk ELSE HttpError("str(e)"))

InitDocker ==
    /\ RetryIdle /\ WaitIdle /\ ClientNew /\ ValidateIdle /\ LifeNew /\ ServerIdle
    /\ DefaultSettings
    /\ AuthIdle /\ JwtIdle

NextDocker ==
    DockerStartup \/ DockerRoot \/ DockerGetNodes \/ DockerGetVms \/ DockerOllama

SpecDocker == InitDocker /\ [][NextDocker]_vars

(***************************************************************************)
(* ProxmoxMCPApplication of src/src/main.py: start(), its keep-alive loop,  *)
(* the signal handler and stop().                                          *)
(***************************************************************************)
Signals == {"SIGINT", "SIGTERM"}

AppOtherVars ==
    <<retryVars, waitVars, validateVars, serverVars, authVars, jwtVars,
      connectCall, disconnects, endpointVars, dockerVars, sharedVars, ops,
      ticks>>

\* stop(): "if self.running: self.running = False; if self.server: await
\* mcp_server.stop()"
StopReachesServer(isRunning, srv) == isRunning /\ srv # "None"

\* the "finally: await self.stop()" of start(), after which start() returns
\* or re-raises; mcp_server.stop() is auth_manager.disconnect()
AppFinish(exit) ==
    /\ appPc' = "finished"
    /\ appExit' = exit
    /\ running' = FALSE
    /\ IF StopReachesServer(running, server)
       THEN LET c == Disconnected(ClientState)
            IN  /\ api' = c.api
                /\ session' = c.session
                /\ connection_cache' = c.cache
                /\ stops' = stops + 1
       ELSE UNCHANGED <<api, session, connection_cache, stops>>

\* start() up to the loop: "self.server = await mcp_server.start()", which
\* raises when auth_manager.connect() returns False, then "self.running = True"
AppStart ==
    /\ appPc = "created"
    /\ \E ctorOk \in BOOLEAN, k \in RequestFailures, empty \in BOOLEAN :
          LET o == ConnectOutcome(ctorOk, k, empty)
          IN  /\ last_connection_check' = o.last
              /\ now' = o.now
              /\ IF o.result
                 THEN /\ api' = o.api
                      /\ session' = o.session
                      /\ server' = "Server"
                      /\ running' = TRUE
                      /\ appPc' = "running"
                      /\ UNCHANGED <<appExit, connection_cache, stops>>
                 ELSE /\ api' = o.api
                      /\ session' = o.session
                      /\ appPc' = "finished"
                      /\ appExit' = "raised"
                      /\ UNCHANGED <<server, running, connection_cache, stops>>
    /\ UNCHANGED <<signalled, loops, AppOtherVars>>

\* handle_signal: "self.running = False"
HandleSignal ==
    /\ appPc = "running"
    /\ \E signum \in Signals : signalled' = signalled \cup {signum}
    /\ running' = FALSE
    /\ UNCHANGED <<appPc, server, appExit, loops, stops, clientVars,
                   connection_cache, AppOtherVars>>

\* "while self.running: await asyncio.sleep(1)": one more turn of the loop
AppLoop ==
    /\ appPc = "running"
    /\ running
    /\ loops < MaxLoops
    /\ loops' = loops + 1
    /\ now' = now + 1
    /\ UNCHANGED <<appPc, running, server, appExit, signalled, stops, api,
                   session, last_connection_check, connection_cache,
                   AppOtherVars>>

\* the loop test finds the flag cleared: the loop ends and the finally
\* clause runs
AppLoopExit ==
    /\ appPc = "running"
    /\ ~running
    /\ AppFinish("returned")
    /\ UNCHANGED <<server, signalled, loops, last_connection_check, now,
                   AppOtherVars>>

\* an exception reaches start() while it sleeps in the loop: it is logged
\* and re-raised after the finally clause
AppLoopRaises ==
    /\ appPc = "running"
    /\ AppFinish("raised")
    /\ UNCHANGED <<server, signalled, loops, last_connection_check, now,
                   AppOtherVars>>

InitApp ==
    /\ RetryIdle /\ WaitIdle /\ ClientNew /\ ValidateIdle /\ LifeNew /\ ServerIdle
    /\ DefaultSettings
    /\ AuthIdle /\ JwtIdle

NextApp ==
    AppStart \/ HandleSignal \/ AppLoop \/ AppLoopExit \/ AppLoopRaises

SpecApp == InitApp /\ [][NextApp]_vars

(***************************************************************************)
(* Several coroutines of one event loop use the shared ProxmoxClient.  A   *)
(* coroutine runs without interruption from one await to the next; the     *)
(* awaits of the client are "await loop.run_in_executor(None, operation)", *)
(* the backoff "await asyncio.sleep(delay * (2 ** attempt))" and the poll  *)
(* "await asyncio.sleep(2)".  The client holds no lock.                    *)
(***************************************************************************)
NoCoroutine ==
    [op |-> "none", at |-> "idle", frame |-> IdleFrame, failsLeft |-> 0,
     runningLeft |-> 0, elapsed |-> 0, started |-> 0, probed |-> FALSE,
     result |-> "none", overlapped |-> FALSE]

\* a client whose sleeps are time.sleep: the event loop is given up only
\* while the executor runs the operation
AwaitPoints_BlockingSleep == {"executor"}

\* where a coroutine gives up the event loop
AwaitPoints == {"executor", "backoff", "poll"}

Sleeping(c) == coroutines[c].at \in {"backoff", "poll"}

\* every other coroutine is parked at an await, or has not started or has
\* finished: the event loop can run c
LoopFree(c) ==
    \A o \in DOMAIN coroutines \ {c} :
        coroutines[o].at \in AwaitPoints \cup {"idle", "returned", "raised"}

\* the failures the first request of a call meets in this harness; the
\* status fetches that follow a poll sleep succeed at once
SharedFailures == {0, 1}

\* the "running" answers a task gives before its terminal one
SharedRunning == {0, 1}

SharedOtherVars ==
    <<retryVars, waitVars, validateVars, serverVars, authVars, jwtVars,
      lifeVars, endpointVars, dockerVars, appVars, api, session, now, ops,
      ticks>>

\* the coroutine enters _execute_with_retry and awaits the first attempt
EnterRetry(me, op, k) ==
    [me EXCEPT !.op = op, !.at = "executor",
               !.frame = RetryEnter(DefaultMaxRetries, DefaultDelay),
               !.failsLeft = k]

\* validate_connection up to its first await
SharedValidate(c) ==
    /\ coroutines[c].at = "idle"
    /\ LoopFree(c)
    /\ \E k \in SharedFailures :
          LET me == [coroutines[c] EXCEPT !.started = now]
          IN  coroutines' = [coroutines EXCEPT ![c] =
                  IF api = "None"
                  THEN [me EXCEPT !.op = "validate", !.at = "returned",
                                  !.result = "False"]
                  ELSE IF CacheFresh(now, last_connection_check)
                  THEN [me EXCEPT !.op = "validate", !.at = "returned",
                                  !.result = "True"]
                  ELSE [EnterRetry(me, "validate", k) EXCEPT !.probed = TRUE]]
    /\ UNCHANGED <<last_connection_check, SharedOtherVars>>

\* an accessor ("call") or wait_for_task ("wait") up to its first await
SharedIssue(c) ==
    /\ coroutines[c].at = "idle"
    /\ LoopFree(c)
    /\ \E op \in {"call", "wait"}, k \in SharedFailures, n \in SharedRunning :
          coroutines' = [coroutines EXCEPT ![c] =
              [EnterRetry(coroutines[c], op, k) EXCEPT
                   !.runningLeft = IF op = "wait" THEN n ELSE 0,
                   !.overlapped = \E o \in DOMAIN coroutines : Sleeping(o)]]
    /\ UNCHANGED <<last_connection_check, SharedOtherVars>>

\* the coroutine after the attempt it awaited has ended
AfterAttempt(me, empty) ==
    LET answer == IF me.runningLeft = 0
                  THEN [status |-> "stopped", exitstatus |-> "OK"]
                  ELSE Running
        failed == RetryOnFailure(me.frame, OperationError(me.frame.attempt + 1))
        end(at, result) ==
            [me EXCEPT !.at = at, !.result = result, !.frame = IdleFrame,
                       !.failsLeft = 0, !.elapsed = 0]
    IN  IF me.failsLeft # 0
        THEN IF failed.pc = "sleep"
             THEN [me EXCEPT !.at = "backoff", !.frame = failed,
                             !.failsLeft = me.failsLeft - 1]
             ELSE IF me.op = "validate"
             THEN end("returned", ProbeResult("exhausted"))
             ELSE end("raised", "error")
        ELSE IF me.op = "validate"
        THEN end("returned", ProbeResult(IF empty THEN "empty" ELSE "alive"))
        ELSE IF me.op = "call"
        THEN end("returned", "value")
        ELSE IF IsTerminal(answer)
        THEN end("returned", "status")
        ELSE IF TimedOut(me.elapsed, DefaultTimeout)
        THEN end("raised", "error")
        ELSE [me EXCEPT !.at = "poll", !.frame = IdleFrame,
                        !.runningLeft = me.runningLeft - 1]

\* the executor hands the outcome of the attempt back to the coroutine,
\* which runs on to its next await or to its end
SharedAttempt(c) ==
    /\ coroutines[c].at = "executor"
    /\ LoopFree(c)
    /\ \E empty \in BOOLEAN :
          LET after == AfterAttempt(coroutines[c], empty)
          IN  /\ coroutines' = [coroutines EXCEPT ![c] = after]
              /\ last_connection_check' =
                     IF after.op = "validate" /\ after.result = "True"
                     THEN after.started
                     ELSE last_connection_check
    /\ UNCHANGED SharedOtherVars

\* a sleep ends: the next attempt of the retry loop, or the next status
\* fetch of wait_for_task
SharedWake(c) ==
    /\ Sleeping(c)
    /\ LoopFree(c)
    /\ LET me == coroutines[c]
       IN  coroutines' = [coroutines EXCEPT ![c] =
               IF me.at = "backoff"
               THEN [me EXCEPT !.at = "executor",
                               !.frame = RetryWake(me.frame),
                               !.elapsed = me.elapsed +
                                   BackoffDelay(me.frame.delay,
                                                me.frame.attempt)]
               ELSE [EnterRetry(me, "wait", 0) EXCEPT
                         !.elapsed = me.elapsed + PollInterval]]
    /\ UNCHANGED <<last_connection_check, SharedOtherVars>>

\* the event loop resumes one of the coroutines
SomeValidate ==
    /\ coroutines # <<>>
    /\ \E c \in DOMAIN coroutines : SharedValidate(c)

SomeIssue ==
    /\ coroutines # <<>>
    /\ \E c \in DOMAIN coroutines : SharedIssue(c)

SomeAttempt ==
    /\ coroutines # <<>>
    /\ \E c \in DOMAIN coroutines : SharedAttempt(c)

SomeWake ==
    /\ coroutines # <<>>
    /\ \E c \in DOMAIN coroutines : SharedWake(c)

\* a connected client whose liveness cache is stale, and n coroutines
InitShared(n) ==
    /\ RetryIdle /\ WaitIdle /\ ValidateIdle /\ ServerIdle /\ DefaultSettings
    /\ AuthIdle /\ JwtIdle
    /\ accepted = 0 /\ wrapDepths = {}
    /\ proxmox = "None" /\ dPc = "starting" /\ dRequest = NoRequest
    /\ dResponse = NoHttpResponse /\ dServed = 0
    /\ AppNew
    /\ connection_cache = {} /\ connectCall = NoConnect /\ disconnects = 0
    /\ api = "ProxmoxAPI"
    /\ session = "Session"
    /\ last_connection_check \in {None, 0}
    /\ now = CheckInterval
    /\ ops = 0
    /\ ticks = 0
    /\ coroutines = [c \in 1..n |-> NoCoroutine]

(***************************************************************************)
(* SpecRace: MaxCallers coroutines call validate_connection.               *)
(***************************************************************************)
InitRace == InitShared(MaxCallers)

NextRace == SomeValidate \/ SomeAttempt \/ SomeWake

SpecRace == InitRace /\ [][NextRace]_vars

(***************************************************************************)
(* SpecShared: MaxTasks coroutines call accessors and wait_for_task.       *)
(***************************************************************************)
InitTasks == InitShared(MaxTasks)

NextShared == SomeIssue \/ SomeAttempt \/ SomeWake

SpecShared == InitTasks /\ [][NextShared]_vars

(***************************************************************************)
(* The properties checked.                                                 *)
(***************************************************************************)
\* C1: with permission enforcement enabled, a registered mutating tool called
\* with its required arguments and caller role "viewer" is answered with a
\* PermissionDenied error, and no remote call is issued during that call.
C1_ViewerDenied ==
    (/\ pc = "done"
     /\ call.entry = "tool"
     /\ call.name \in MutatingTools
     /\ FirstMissing(Indexed(call.name), call.args) = "none"
     /\ call.role = "viewer"
     /\ enable_rbac)
        => (/\ response.error.type = "PermissionDenied"
            /\ remoteCalls = 0)

\* C2: with max_retries >= 1, an operation that fails k < max_retries times and
\* then succeeds makes _execute_with_retry return its value after exactly k+1
\* invocations; an operation that fails forever is invoked exactly max_retries
\* times and the wrapper raises.
C2_RetryAttempts ==
    (RetryDone(rFrame) /\ rFrame.max_retries >= 1) =>
        IF opPlan # AlwaysFail /\ opPlan < rFrame.max_retries
        THEN /\ rFrame.pc = "returned"
             /\ rFrame.value = "success"
             /\ rInvocations = opPlan + 1
        ELSE /\ rFrame.pc = "raised"
             /\ rFrame.error.type = "ProxmoxMCPException"
             /\ rInvocations = rFrame.max_retries

C2_Witness ==
    /\ rFrame.pc = "returned"
    /\ rFrame.max_retries = DefaultMaxRetries
    /\ opPlan = 2
    /\ rInvocations = 3

\* C3: a mutating tool reports success to the caller only after wait_for_task
\* has returned for the task handle of the mutating call, with a status that
\* is not "running".
C3_SuccessAfterTerminal ==
    (/\ pc = "done"
     /\ call.entry = "tool"
     /\ call.name \in MutatingTools
     /\ response.text = "result")
        => (/\ waitReturned
            /\ wResult \in TerminalStatuses)

\* C4: wait_for_task never returns a non-terminal status: the status object it
\* returns is not "running", and it is the answer of the first fetch that was
\* not "running" (every earlier fetch answered "running").
C4_ReturnsFirstTerminal ==
    wPc = "returned" =>
        /\ wResult.status # "running"
        /\ wResult = srcTerminal
        /\ wPolls = srcPlan + 1

C4_Witness ==
    /\ wPc = "returned"
    /\ srcPlan = 2
    /\ wPolls = 3
    /\ wResult.exitstatus = "OK"

\* C5: against a task that is always "running", wait_for_task does not go on
\* once the elapsed time exceeds the timeout (it raises the timeout error at
\* that check), never returns a status, and with timeout = 1 makes at most
\* two status fetches.
C5_TimeoutEnforced ==
    srcPlan = AlwaysRunning =>
        /\ wPc = "sleep" => wElapsed <= wTimeout
        /\ wPc # "returned"
        /\ wTimeout = 1 => wPolls <= 2

C7_CacheOnlyWhenFresh ==
    \A i \in DOMAIN vCalls :
        /\ (vCalls[i].result = "True" /\ vCalls[i].probes = 0)
               => (vCalls[i].age # None /\ vCalls[i].age < CheckInterval)
        /\ (vCalls[i].connected /\ vCalls[i].age >= CheckInterval)
               => vCalls[i].probes = 1

\* C8: no remote call is attempted while the client's connection (self.api)
\* is unset, whatever connects, disconnects, tool calls and resource reads
\* came before.
C8_NoRemoteCallWhileUnset == attemptedUnset = FALSE

\* C9: handle_call_tool always returns a response and never lets an exception
\* escape, whatever the tool name, the arguments and the failure (retry
\* exhaustion, task timeout, failed task, unset connection, unknown name);
\* a failure is answered with the failure text, never with the result.
C9_NeverEscapes ==
    (pc = "done" /\ call.entry = "tool")
        => (/\ ~response.escaped
            /\ response.text \in {"result", "Tool execution failed"}
            /\ (raised = NoException) <=> (response.text = "result")
            /\ (response.text = "Tool execution failed")
                   => response.error = raised
            /\ (\/ wError # NoException
                \/ (waitReturned /\ wResult.exitstatus # "OK")
                \/ attemptedUnset
                \/ call.name \notin RegisteredTools
                \/ FirstMissing(Indexed(call.name), call.args) # "none")
                   => response.text = "Tool execution failed")

\* create_vm whose task never finishes: wait_for_task raised the timeout and
\* the caller got the failure text
C9_Witness ==
    /\ pc = "done"
    /\ call.entry = "tool"
    /\ call.name = "create_vm"
    /\ wError = TaskTimeout
    /\ raised = ServiceError(TaskTimeout)
    /\ response.text = "Tool execution failed"
    /\ ~response.escaped

\* C10: a tool name that is not registered is answered with an error whose
\* code is "UnknownOperation", and no remote call is issued for that call.
C10_UnknownOperation ==
    (/\ pc = "done"
     /\ call.entry = "tool"
     /\ call.name \notin RegisteredTools)
        => (/\ response.error.type = "ProxmoxMCPException"
            /\ response.error.error_code = "UnknownOperation"
            /\ remoteCalls = 0)

\* C11: a registered tool called without a field its input schema requires
\* is answered with a validation error (ProxmoxValidationException) that names
\* the missing field, and no remote call is issued for that call.
C11_MissingFieldValidationError ==
    (/\ pc = "done"
     /\ call.entry = "tool"
     /\ call.name \in RegisteredTools
     /\ Range(Indexed(call.name)) \ call.args # {})
        => (/\ remoteCalls = 0
            /\ response.error.type = "ProxmoxValidationException"
            /\ response.error.field \in Range(Indexed(call.name)) \ call.args)

\* C12: when _execute_with_retry gives up, the error it raises is of the
\* operation-failure kind, told apart from the other kinds by its code
\* (ProxmoxOperationException, PROXMOX_OPERATION_ERROR), and carries the
\* error of the last attempt.
C12_TypedOperationFailed ==
    (rFrame.pc = "raised" /\ rFrame.max_retries >= 1)
        => (/\ rFrame.error.error_code = "PROXMOX_OPERATION_ERROR"
            /\ rFrame.error.cause = OperationError(rInvocations))

\* C13: when wait_for_task gives up on the timeout, the error it raises is of
\* the timeout kind (ProxmoxTimeoutException, PROXMOX_TIMEOUT_ERROR) and
\* carries the timeout value.
C13_TypedTimeout ==
    (wPc = "raised" /\ wError.message = "Task timed out")
        => (/\ wError.error_code = "PROXMOX_TIMEOUT_ERROR"
            /\ wError.timeout = wTimeout)

\* C14: after the failed attempt a (from 0) with a < max_retries - 1 the
\* wrapper sleeps delay * 2^a, and it sleeps neither after the last failed
\* attempt nor after a success: the sleeps so far are delay, 2 delay, 4 delay,
\* ..., one per failed attempt that was followed by another attempt.
C14_BackoffSleeps ==
    (rFrame.pc # "idle")
        => (/\ Len(rSleeps) = rFrame.attempt
            /\ \A i \in 1..Len(rSleeps) : rSleeps[i] = rFrame.delay * Pow2(i - 1)
            /\ (rFrame.pc = "returned") => Len(rSleeps) = rInvocations - 1
            /\ (rFrame.pc = "raised" /\ rFrame.max_retries >= 1)
                   => (/\ rInvocations = rFrame.max_retries
                       /\ Len(rSleeps) = rFrame.max_retries - 1))

\* the defaults (3 attempts, 1 s) against an operation that always fails
C14_Witness ==
    /\ rFrame.pc = "raised"
    /\ rFrame.max_retries = DefaultMaxRetries
    /\ rFrame.delay = DefaultDelay
    /\ rSleeps = <<1, 2>>

\* C15: against a task that answers "running" n times and then a terminal
\* status, a wait_for_task that returns has made exactly n + 1 status fetches
\* and n sleeps of 2 seconds, one between every two consecutive fetches and
\* none after the last, and returns the terminal status.
C15_PollsAndSleeps ==
    /\ wPc \in {"fetch", "raised"} => Len(wSleeps) \in {wPolls, wPolls - 1}
    /\ wPc = "sleep" => Len(wSleeps) = wPolls - 1
    /\ \A i \in 1..Len(wSleeps) : wSleeps[i] = 2
    /\ srcPlan # AlwaysRunning => wPolls <= srcPlan + 1
    /\ wPc = "returned"
          => (/\ srcPlan # AlwaysRunning
              /\ wPolls = srcPlan + 1
              /\ Len(wSleeps) = srcPlan
              /\ wResult = srcTerminal)

\* two "running" answers, then the task ended with exit status ERR
C15_Witness ==
    /\ wPc = "returned"
    /\ srcPlan = 2
    /\ wSleeps = <<2, 2>>
    /\ wResult = [status |-> "stopped", exitstatus |-> "ERR"]

\* C16: once wait_for_task has timed out inside a create / delete / clone
\* handler, the invocation issues no further remote call (no new attempt of
\* the mutating call, no further poll, no abort call) and ends by handing
\* the error to its caller.
C16_TimeoutSurfaces ==
    [][(pc \in {"waiting", "done"} /\ wError = TaskTimeout)
          => (/\ rFrame'.pc = "idle"
              /\ wPc' \in {"raised", "idle"}
              /\ pc' = "idle" \/ (remoteCalls' = remoteCalls /\ wPolls' = wPolls)
              /\ pc' \in {"waiting", "done", "idle"}
              /\ pc' = "done"
                    => (/\ raised' = ServiceError(TaskTimeout)
                        /\ response'.text = "Tool execution failed"))]_vars

\* delete_vm whose task never ended: one delete request and the status
\* fetches made before the timeout, nothing after it
C16_Witness ==
    /\ pc = "done"
    /\ call.name = "delete_vm"
    /\ wError = TaskTimeout
    /\ raised = ServiceError(TaskTimeout)
    /\ rInvocations = 1
    /\ remoteCalls = 1 + wPolls

\* C17: check_permission grants exactly when enforcement is disabled or the
\* permission is in the role's set of the static table; with enforcement
\* enabled a role that is not in the table is denied everything; the call
\* changes nothing but its own result.
C17_CheckPermission ==
    [][aPc' = "returned"
          => (/\ granted' <=> (\/ ~enable_rbac
                               \/ /\ user_role \in {"admin", "operator", "viewer"}
                                  /\ required_permission \in ROLES[user_role])
              /\ (enable_rbac /\ user_role \notin {"admin", "operator", "viewer"})
                     => ~granted'
              /\ UNCHANGED <<enable_rbac, user_role, required_permission,
                             retryVars, clientVars, waitVars, validateVars,
                             serverVars, jwtVars, lifeVars, endpointVars, dockerVars, appVars, sharedVars>>)]_vars

\* with enforcement enabled, a role that is not in the table was denied a
\* permission every built-in role holds
C17_Witness ==
    /\ aPc = "returned"
    /\ enable_rbac
    /\ user_role = "guest"
    /\ required_permission = "vm:monitor"
    /\ ~granted

\* C18: the built-in permission sets are strictly nested (viewer within
\* operator within admin, each inclusion proper), so with enforcement enabled
\* what check_permission grants to viewer it grants to operator, and what it
\* grants to operator it grants to admin.
C18_RolesNested ==
    /\ ROLES["viewer"] \subseteq ROLES["operator"]
    /\ ROLES["operator"] \subseteq ROLES["admin"]
    /\ ROLES["operator"] \ ROLES["viewer"] # {}
    /\ ROLES["admin"] \ ROLES["operator"] # {}
    /\ (aPc = "returned" /\ enable_rbac /\ granted /\ user_role = "viewer")
          => check_permission(TRUE, "operator", required_permission)
    /\ (aPc = "returned" /\ enable_rbac /\ granted /\ user_role = "operator")
          => check_permission(TRUE, "admin", required_permission)

\* with enforcement enabled the operator was granted a permission the viewer
\* set lacks
C18_Witness ==
    /\ aPc = "returned"
    /\ enable_rbac
    /\ user_role = "operator"
    /\ required_permission = "vm:start"
    /\ granted
    /\ ~check_permission(TRUE, "viewer", required_permission)

\* C19: verify_token returns the claims of a token exactly when the token is
\* the one create_access_token issued with the configured secret, unmodified
\* and not yet expired; for an expired or a tampered token it returns None,
\* and it does not raise.
C19_TokenRoundTrip ==
    (jPc = "verified")
        => (/\ ~payload.raised
            /\ (token = issued /\ utcnow <= issued.claims.exp)
                   => (/\ ~payload.none
                       /\ payload.claims = issued.claims
                       /\ payload.claims.sub = data.sub)
            /\ (token # issued \/ utcnow > issued.claims.exp) => payload.none)

\* a token for "alice" verified at the moment it was issued
C19_Witness ==
    /\ jPc = "verified"
    /\ data.sub = "alice"
    /\ token = issued
    /\ utcnow = 0
    /\ ~payload.none
    /\ payload.claims.sub = "alice"

\* C20: validate_connection never raises; when the connection is unset, when
\* the probe exhausts its retries and when the probe returns an empty result
\* it returns False, and none of these calls changes the time of the last
\* successful check.
C20_ValidateNeverRaises ==
    [][(vCalls' # vCalls /\ vPc' = "done")
          => LET c == vCalls'[Len(vCalls')]
             IN  /\ c.result \in {"True", "False"}
                 /\ (~c.connected) => c.outcome = "unset"
                 /\ c.outcome \in {"unset", "exhausted", "empty"}
                       => (/\ c.result = "False"
                           /\ last_connection_check' = last_connection_check)]_vars

\* a connected client whose cache has gone stale probes, the probe exhausts
\* its retries, and the call answers False with the old timestamp kept
C20_Witness ==
    /\ vPc = "done"
    /\ Len(vCalls) = 1
    /\ vCalls[1].connected
    /\ vCalls[1].outcome = "exhausted"
    /\ vCalls[1].result = "False"
    /\ last_connection_check = 0
    /\ now - last_connection_check >= CheckInterval

\* C21: connect() never raises: it returns True or False.  It returns True
\* exactly when its version probe, made through _execute_with_retry in at
\* most DefaultMaxRetries invocations, came back with version information
\* that is not empty.  The liveness timestamp is set to the time of the
\* return exactly then, and keeps its value when connect() returns False.
\* (A step that counts a client call, validates nothing and leaves no
\* disconnect behind is a connect().)
C21_ConnectOutcome ==
    [][(ops' # ops /\ vCalls' = vCalls /\ disconnects' = 0) =>
          /\ connectCall'.result \in {"True", "False"}
          /\ (connectCall'.result = "True") = (connectCall'.probe = "alive")
          /\ connectCall'.invocations <= DefaultMaxRetries
          /\ connectCall'.result = "True" => last_connection_check' = now'
          /\ connectCall'.result = "False" =>
                 last_connection_check' = last_connection_check]_vars

\* a connect() returned False after its probe used up every attempt, and the
\* timestamp of an earlier successful connect() is still in place
C21_Witness ==
    /\ connectCall.result = "False"
    /\ connectCall.probe = "exhausted"
    /\ connectCall.invocations = DefaultMaxRetries
    /\ last_connection_check # None
    /\ last_connection_check < now
    /\ disconnects = 0
    /\ vCalls = <<>>

\* C22: disconnect() is idempotent: applied to any state of the client, a
\* second disconnect() leaves what the first one left, which is a client
\* with no session, no connection and an empty cache; this includes a client
\* that never connected.
C22_DisconnectIdempotent ==
    LET once == Disconnected(ClientState)
    IN  /\ Disconnected(once) = once
        /\ once = [api |-> "None", session |-> "None", cache |-> {}]
        /\ disconnects >= 1 => ClientState = once

\* disconnect() ran twice in a row on a client that had connected
C22_Witness ==
    /\ disconnects = 2
    /\ connectCall.result = "True"
    /\ ClientState = [api |-> "None", session |-> "None", cache |-> {}]

\* C29: a validate_connection that starts while the most recent connect()
\* returned False does not answer True from the cache: it answers False or
\* issues a fresh probe, even when an earlier connect or probe succeeded
\* less than CheckInterval seconds before.
C29_NoCacheAfterFailedConnect ==
    \A i \in 1..Len(vCalls) :
        vCalls[i].connect = "False" =>
            ~(vCalls[i].outcome = "cached" /\ vCalls[i].result = "True")

\* C30: the token create_access_token returns expires at the time of issue
\* plus the expires_delta it was handed, a zero duration included; the
\* default lifetime of JwtExpireMinutes is used only when no expires_delta
\* was handed over; the caller's claims are left as they were, without "exp".
C30_ExpiryIsIssuePlusDelta ==
    jPc # "idle" =>
        /\ expires_delta.given =>
               issued.claims.exp = issued_at + expires_delta.seconds
        /\ ~expires_delta.given =>
               issued.claims.exp = issued_at + JwtExpireMinutes * 60
        /\ DOMAIN data = {"sub"}
        /\ data.sub = issued.claims.sub

\* C26: a create, delete or clone handler of a VM or a container ends with
\* success exactly when its mutating call returned a task handle,
\* wait_for_task returned a status for it that is not "running", and that
\* status carries the exit status "OK"; in every other case (another exit
\* status, a timeout, a failed call) the caller got no success, and once the
\* dispatcher had found the handler's arguments what it got is the
\* ProxmoxMCPException the handler raised.
C26_SuccessOnlyAfterOk ==
    (/\ pc = "done"
     /\ call.entry = "tool"
     /\ call.name \in WaitingTools)
        => /\ (raised = NoException) =
                  (/\ task_id = "UPID"
                   /\ waitReturned
                   /\ wResult \in TerminalStatuses
                   /\ wResult.exitstatus = "OK")
           /\ (response.text = "result") = (raised = NoException)
           /\ (/\ raised # NoException
               /\ FirstMissing(Indexed(call.name), call.args) = "none")
                  => raised.type = "ProxmoxMCPException"

\* clone_vm ended with success after its task was polled more than once
C26_Witness ==
    /\ pc = "done"
    /\ call.entry = "tool"
    /\ call.name = "clone_vm"
    /\ raised = NoException
    /\ response.text = "result"
    /\ waitReturned
    /\ wPolls >= 2
    /\ wResult.exitstatus = "OK"

\* C27: one invocation of a mutating tool delivers its mutating request to
\* the endpoint at most once: when the endpoint accepted the request of an
\* attempt that the client saw fail (the response was lost), the retry
\* wrapper does not send the request again, so the endpoint never accepts
\* it a second time.
C27_MutationAcceptedOnce == accepted <= 1

\* C25: every request to Proxmox is issued from inside exactly one level of
\* _execute_with_retry: none is issued outside the wrapper and none inside
\* two nested wrappers.
C25_RemoteCallsWrappedOnce == \A d \in wrapDepths : d = 1

\* C28: when the application started successfully and start() has finished,
\* after a signal or after an exception, mcp_server.stop() has run and the
\* transport client is disconnected.
C28_DisconnectedOnShutdown ==
    (appPc = "finished" /\ server = "Server") =>
        /\ stops >= 1
        /\ api = "None"
        /\ session = "None"

\* C23: when several callers run validate_connection at once on a stale
\* cache, at most two of them get their "alive" from a probe of their own
\* (the one probe that is needed and at most one redundant probe), and a
\* caller is told "alive" only when a probe has succeeded within the last
\* CheckInterval seconds.
C23_AtMostOneExtraProbe ==
    /\ Cardinality({c \in DOMAIN coroutines :
                       /\ coroutines[c].op = "validate"
                       /\ coroutines[c].probed
                       /\ coroutines[c].result = "True"}) <= 2
    /\ \A c \in DOMAIN coroutines :
          (coroutines[c].op = "validate" /\ coroutines[c].result = "True")
              => /\ last_connection_check # None
                 /\ now - last_connection_check < CheckInterval

\* C24: a coroutine suspended in the poll sleep of wait_for_task or in a
\* backoff sleep of the retry wrapper blocks nobody: every other coroutine
\* can take its next step (issue a call on the shared client, receive the
\* outcome of its attempt, wake from its own sleep), and a step of one
\* coroutine leaves the others' calls as they are.
C24_SleeperBlocksNobody ==
    \A a \in DOMAIN coroutines, b \in DOMAIN coroutines :
        (a # b /\ Sleeping(a)) =>
            /\ coroutines[b].at = "idle" => ENABLED SharedIssue(b)
            /\ coroutines[b].at = "executor" => ENABLED SharedAttempt(b)
            /\ Sleeping(b) => ENABLED SharedWake(b)

\* a call was issued while the only other active coroutine was in the poll
\* sleep of its wait_for_task, and has returned while that coroutine is
\* still in that sleep
C24_Witness ==
    \E a \in DOMAIN coroutines, b \in DOMAIN coroutines :
        /\ a # b
        /\ coroutines[a].op = "wait"
        /\ coroutines[a].at = "poll"
        /\ coroutines[b].op = "call"
        /\ coroutines[b].at = "returned"
        /\ coroutines[b].result = "value"
        /\ coroutines[b].overlapped
        /\ \A o \in DOMAIN coroutines \ {a, b} : coroutines[o].at = "idle"

====
